---- MODULE Spec2Model ----
(***************************************************************************)
(* A model of flet_audio.Audio (src/src/flet_audio/audio.py): the          *)
(* configuration fields and their validation hook, the seven suspending    *)
(* and five non-suspending command methods, the asyncio tasks the          *)
(* non-suspending methods create, and the five event handler fields.       *)
(*                                                                         *)
(* The command channel behind _invoke_method_async, the event dispatcher   *)
(* and the attachment of an instance to the page are the runtime's, not    *)
(* this file's: they follow the specification's contract (sections 4.1,    *)
(* 4.3, 4.4).  The owner calls the methods on the running event loop.      *)
(***************************************************************************)
EXTENDS Integers, Sequences, FiniteSets, TLC

(***************************************************************************)
(* Bounds of the model.                                                    *)
(***************************************************************************)
MaxCalls == 2        \* facade calls made in one behaviour
MaxAge == 2          \* time units a pending command is observed for
MaxAssign == 2       \* field assignments made in one behaviour
MaxEvents == 2       \* inbound events delivered in one behaviour

(***************************************************************************)
(* Python values.  Optional[T] is None or a value; an argument the caller  *)
(* leaves out is Omitted and takes the default of the signature.  A str is *)
(* a sequence of characters, so that its emptiness is computed.            *)
(***************************************************************************)
None == [tag |-> "None"]
Some(v) == [tag |-> "Some", val |-> v]
Omitted == [tag |-> "Omitted"]

ArgOr(a, default) == IF a = Omitted THEN default ELSE a

\* Python truth value of an Optional[str]: None and "" are false.
Truthy(s) == s.tag = "Some" /\ Len(s.val) > 0

Instances == {1, 2}

SrcValues == {None, Some(<<>>), Some(<<"a", ".", "m", "p", "3">>)}
Base64Values == {None, Some(<<>>), Some(<<"Q", "Q", "=", "=">>)}

VARIABLES
    src,            \* [Instances -> Optional[str]]
    src_base64,     \* [Instances -> Optional[str]]
    attached,       \* [Instances -> BOOLEAN]: the runtime has published the instance
    props,          \* [Instances -> autoplay, volume, balance, playback_rate, release_mode]
    lastCheck,      \* [Instances -> the last before_update: the fields it saw and how it ended]
    assigns,        \* number of field assignments made
    calls,          \* the facade calls made so far, in call order
    ready,          \* the event loop's queue of created tasks not yet started (call indices)
    sent,           \* the commands sent on the channel, in send order
    table,          \* the channel's pending-request table: correlation ids awaiting a reply
    answered,       \* correlation ids the remote side has answered
    dropped,        \* correlation ids whose reply arrived with no pending request
    handlers,       \* [Instances -> [EventFields -> Optional[handler]]]: on_loaded, ...
    registered,     \* [Instances -> [EventFields -> the handlers assigned, in order]]
    inbox,          \* inbound events the transport has brought, not yet dispatched
    delivered       \* the events dispatched so far, each with the handlers it invoked

cfgVars == <<src, src_base64, props, attached, lastCheck, assigns>>
cmdVars == <<calls, ready, sent, table, answered, dropped>>
evtVars == <<handlers, registered, inbox, delivered>>

vars == <<src, src_base64, props, attached, lastCheck, assigns,
          calls, ready, sent, table, answered, dropped,
          handlers, registered, inbox, delivered>>

\* The playback properties as declared: autoplay = False, volume = 1.0, balance = 0.0,
\* playback_rate = 1.0, release_mode = ReleaseMode.RELEASE.  The numbers are kept as
\* written; nothing in the class computes with them.
DefaultProps ==
    [autoplay |-> FALSE, volume |-> "1.0", balance |-> "0.0", playback_rate |-> "1.0",
     release_mode |-> "RELEASE"]

\* Other values an owner may construct the instance with.
TunedProps ==
    [autoplay |-> TRUE, volume |-> "0.5", balance |-> "-1.0", playback_rate |-> "2.0",
     release_mode |-> "LOOP"]

NoCheck == [done |-> FALSE, src |-> None, src_base64 |-> None, raised |-> None]

InitCfg ==
    /\ src = [i \in Instances |-> None]
    /\ src_base64 = [i \in Instances |-> None]
    /\ props = [i \in Instances |-> DefaultProps]
    /\ attached = [i \in Instances |-> FALSE]
    /\ lastCheck = [i \in Instances |-> NoCheck]
    /\ assigns = 0

\* A validation that tests the fields against None only.
ConfigOkNotNone(s, b) == s # None \/ b # None

\* assert self.src or self.src_base64, "either src or src_base64 must be provided"
ConfigOk(s, b) == Truthy(s) \/ Truthy(b)

ConfigError == Some(<<"either src or src_base64 must be provided">>)

\* A src field that validates the configuration when it is assigned.
SetSrcValidating(i, v) ==
    /\ assigns < MaxAssign
    /\ src[i] # v
    /\ src' = [src EXCEPT ![i] = v]
    /\ assigns' = assigns + 1
    /\ lastCheck' = [lastCheck EXCEPT ![i] =
            [done |-> TRUE, src |-> v, src_base64 |-> src_base64[i],
             raised |-> IF ConfigOk(v, src_base64[i]) THEN None ELSE ConfigError]]
    /\ UNCHANGED <<src_base64, props, attached, cmdVars, evtVars>>

\* The owner assigns a field; nothing is validated at assignment.
SetSrc(i, v) ==
    /\ assigns < MaxAssign
    /\ src[i] # v
    /\ src' = [src EXCEPT ![i] = v]
    /\ assigns' = assigns + 1
    /\ UNCHANGED <<src_base64, props, attached, lastCheck, cmdVars, evtVars>>

SetSrcBase64(i, v) ==
    /\ assigns < MaxAssign
    /\ src_base64[i] # v
    /\ src_base64' = [src_base64 EXCEPT ![i] = v]
    /\ assigns' = assigns + 1
    /\ UNCHANGED <<src, props, attached, lastCheck, cmdVars, evtVars>>

before_update(i) ==
    /\ lastCheck' = [lastCheck EXCEPT ![i] =
            [done |-> TRUE, src |-> src[i], src_base64 |-> src_base64[i],
             raised |-> IF ConfigOk(src[i], src_base64[i]) THEN None ELSE ConfigError]]
    /\ attached' = [attached EXCEPT ![i] = @ \/ ConfigOk(src[i], src_base64[i])]
    /\ lastCheck'[i] # lastCheck[i]
    /\ UNCHANGED <<src, src_base64, props, assigns, cmdVars, evtVars>>

(***************************************************************************)
(* The method facade.  Every method builds one request and hands it to     *)
(* _invoke_method_async(name, arguments, timeout=timeout).                 *)
(***************************************************************************)
Duration(n) == [tag |-> "Duration", units |-> n]
ZeroDuration == Duration(0)       \* ft.Duration(): the zero-length duration
DefaultTimeout == Some(10)        \* timeout: Optional[float] = 10

NoArgs == {}

Request(name, arguments, timeout) ==
    [name |-> name, arguments |-> arguments, timeout |-> timeout]

play_async(position, timeout) ==
    Request("play", {<<"position", ArgOr(position, ZeroDuration)>>},
            ArgOr(timeout, DefaultTimeout))

pause_async(timeout) == Request("pause", NoArgs, ArgOr(timeout, DefaultTimeout))

resume_async(timeout) == Request("resume", NoArgs, ArgOr(timeout, DefaultTimeout))

\* release_async passing "timeout or 10": None becomes the default timeout.
release_async_OrDefault(timeout) ==
    Request("release", NoArgs, IF timeout \in {None, Omitted} THEN DefaultTimeout ELSE timeout)

release_async(timeout) == Request("release", NoArgs, ArgOr(timeout, DefaultTimeout))

seek_async(position, timeout) ==
    Request("seek", {<<"position", position>>}, ArgOr(timeout, DefaultTimeout))

get_duration_async(timeout) ==
    Request("get_duration", NoArgs, ArgOr(timeout, DefaultTimeout))

\* get_current_position_async without "timeout=timeout": the default timeout applies.
get_current_position_async_DefaultTimeout(timeout) ==
    Request("get_current_position", NoArgs, DefaultTimeout)

\* get_current_position_async with the command name of get_duration_async.
get_current_position_async_Copied(timeout) ==
    Request("get_duration", NoArgs, ArgOr(timeout, DefaultTimeout))

get_current_position_async(timeout) ==
    Request("get_current_position", NoArgs, ArgOr(timeout, DefaultTimeout))

\* play() scheduling the coroutine of resume().
play_Copied(position, timeout) == resume_async(ArgOr(timeout, DefaultTimeout))

\* The coroutine each non-suspending method hands to asyncio.create_task.
play(position, timeout) ==
    play_async(ArgOr(position, ZeroDuration), ArgOr(timeout, DefaultTimeout))

pause(timeout) == pause_async(ArgOr(timeout, DefaultTimeout))

resume(timeout) == resume_async(ArgOr(timeout, DefaultTimeout))

\* release() without "timeout=timeout": the coroutine's default timeout applies.
release_NoTimeout(timeout) == release_async(Omitted)

release(timeout) == release_async(ArgOr(timeout, DefaultTimeout))

seek(position, timeout) == seek_async(position, ArgOr(timeout, DefaultTimeout))

\* get_duration_async awaiting its command without returning what it awaited.
ReturnsReplyPositionOnly(method) == method = "get_current_position_async"

\* The methods whose body is "return await ..."; the others await and return None.
ReturnsReply(method) == method \in {"get_duration_async", "get_current_position_async"}

(***************************************************************************)
(* Outcomes.  A reply carries the correlation id and the name of the       *)
(* command the remote side answered, and the value it answered with.       *)
(***************************************************************************)
NoPayload == [of |-> 0, q |-> "", v |-> None]

Outcome(kind, val) == [kind |-> kind, val |-> val]

Pending == Outcome("none", NoPayload)

Failed(o) == o.kind \in {"TimeoutError", "RemoteError"}

\* A coroutine that catches what its await raises and returns None.
CoroutineOutcomeSwallow(method, o) ==
    Outcome("return", IF o.kind = "reply" /\ ReturnsReply(method) THEN o.val ELSE NoPayload)

\* How a coroutine of the facade ends, given how its await of the channel ended:
\* no method catches anything, and only the two queries return what they awaited.
CoroutineOutcome(method, o) ==
    IF o.kind = "reply"
    THEN Outcome("return", IF ReturnsReply(method) THEN o.val ELSE NoPayload)
    ELSE o

\* What the caller of a suspending method sees: the coroutine's outcome.
AwaitOutcome(r) == r

\* A non-suspending method that waits for its coroutine to end.
CreateTaskOutcomeBlocking == Pending

\* What the caller of a non-suspending method sees: asyncio.create_task returns the
\* task at once and the method returns None.
CreateTaskOutcome == Outcome("return", NoPayload)

\* An exception that ends a task nobody holds is never retrieved.
TaskException(form, r) == form = "task" /\ Failed(r)

\* A call of a method: what the caller passed (given), the request its coroutine
\* makes, and how far the coroutine has come.
NewCall(i, method, form, given, req) ==
    [inst |-> i, method |-> method, form |-> form, given |-> given, req |-> req,
     st |-> "created", cid |-> 0, age |-> 0, cfgOk |-> TRUE,
     chan |-> Pending, result |-> Pending,
     caller |-> IF form = "task" THEN CreateTaskOutcome ELSE Pending,
     unhandled |-> FALSE]

Given(position, timeout) == [position |-> position, timeout |-> timeout]

InitCmd ==
    /\ calls = <<>>
    /\ ready = <<>>
    /\ sent = <<>>
    /\ table = {}
    /\ answered = {}
    /\ dropped = {}

(***************************************************************************)
(* The command channel: send, reply, timeout.                              *)
(***************************************************************************)
\* The channel's send, as coroutine k reaches its await: the command is tagged with
\* the instance and a fresh correlation id, and the request enters the table.
SendCommand(cs, k) ==
    LET cid == Len(sent) + 1
        c == cs[k]
    IN  /\ sent' = Append(sent, [cid |-> cid, inst |-> c.inst, name |-> c.req.name,
                                 arguments |-> c.req.arguments,
                                 timeout |-> c.req.timeout, call |-> k])
        /\ table' = table \cup {cid}
        /\ calls' = [cs EXCEPT ![k].st = "awaiting", ![k].cid = cid,
                               ![k].cfgOk = ConfigOk(src[c.inst], src_base64[c.inst])]

\* A release_async that also forgets the source of the instance it released.
AwaitForgettingSource(i, method, given, req) ==
    /\ Len(calls) < MaxCalls
    /\ attached[i]
    /\ SendCommand(Append(calls, NewCall(i, method, "await", given, req)), Len(calls) + 1)
    /\ src' = IF method = "release_async" THEN [src EXCEPT ![i] = None] ELSE src
    /\ UNCHANGED <<src_base64, props, attached, lastCheck, assigns, evtVars,
                   ready, answered, dropped>>

\* A suspending method called by the owner: the coroutine runs to its await at once.
Await(i, method, given, req) ==
    /\ Len(calls) < MaxCalls
    /\ attached[i]
    /\ SendCommand(Append(calls, NewCall(i, method, "await", given, req)), Len(calls) + 1)
    /\ UNCHANGED <<cfgVars, evtVars, ready, answered, dropped>>

\* A non-suspending method that builds the coroutine and never hands it to the loop.
CreateTaskNotScheduled(i, method, given, req) ==
    /\ Len(calls) < MaxCalls
    /\ attached[i]
    /\ calls' = Append(calls, NewCall(i, method, "task", given, req))
    /\ UNCHANGED <<cfgVars, evtVars, ready, sent, table, answered, dropped>>

\* A non-suspending method: asyncio.create_task(coroutine) and return.
CreateTask(i, method, given, req) ==
    /\ Len(calls) < MaxCalls
    /\ attached[i]
    /\ calls' = Append(calls, NewCall(i, method, "task", given, req))
    /\ ready' = Append(ready, Len(calls) + 1)
    /\ UNCHANGED <<cfgVars, evtVars, sent, table, answered, dropped>>

\* A scheduler that starts the most recently created task first.
RunTaskNewestFirst ==
    /\ ready # <<>>
    /\ SendCommand(calls, ready[Len(ready)])
    /\ ready' = SubSeq(ready, 1, Len(ready) - 1)
    /\ UNCHANGED <<cfgVars, evtVars, answered, dropped>>

\* The event loop starts the tasks in the order they were created.
RunTask ==
    /\ ready # <<>>
    /\ SendCommand(calls, Head(ready))
    /\ ready' = Tail(ready)
    /\ UNCHANGED <<cfgVars, evtVars, answered, dropped>>

\* Coroutine k's await of the channel ends with outcome o.
Finish(c, o) ==
    LET r == CoroutineOutcome(c.method, o)
    IN  [c EXCEPT !.st = "done", !.chan = o, !.result = r,
                  !.caller = IF c.form = "await" THEN AwaitOutcome(r) ELSE @,
                  !.unhandled = TaskException(c.form, r)]

\* A channel that hands a reply without a pending request to any call still pending
\* on the same instance.
RecipientsAnyPending(cid) ==
    IF cid \in table
    THEN {k \in 1..Len(calls) : calls[k].cid = cid}
    ELSE {k \in 1..Len(calls) : calls[k].st = "awaiting" /\ calls[k].inst = sent[cid].inst}

\* The calls a reply to command cid is handed to: the one the table holds for cid.
Recipients(cid) ==
    IF cid \in table THEN {k \in 1..Len(calls) : calls[k].cid = cid} ELSE {}

ReplyValues(name) ==
    IF name \in {"get_duration", "get_current_position"} THEN {None, Some(3)} ELSE {None}

\* The remote side answers command cid, once, with a result or an error.
ReplyArrives(cid, kind, v) ==
    /\ cid \in 1..Len(sent)
    /\ cid \notin answered
    /\ answered' = answered \cup {cid}
    /\ LET o == Outcome(kind, IF kind = "reply"
                              THEN [of |-> cid, q |-> sent[cid].name, v |-> v]
                              ELSE NoPayload)
       IN  IF Recipients(cid) = {}
           THEN /\ dropped' = dropped \cup {cid}
                /\ UNCHANGED <<calls, table>>
           ELSE \E k \in Recipients(cid) :
                /\ calls' = [calls EXCEPT ![k] = Finish(@, o)]
                /\ table' = table \ {calls[k].cid}
                /\ UNCHANGED dropped
    /\ UNCHANGED <<cfgVars, evtVars, ready, sent>>

Expired(c) ==
    c.st = "awaiting" /\ c.req.timeout # None /\ c.age >= c.req.timeout.val

\* The wait of call k ends after its timeout: the request leaves the table.
Timeout(k) ==
    /\ k \in 1..Len(calls)
    /\ Expired(calls[k])
    /\ calls' = [calls EXCEPT ![k] = Finish(@, Outcome("TimeoutError", NoPayload))]
    /\ table' = table \ {calls[k].cid}
    /\ UNCHANGED <<cfgVars, evtVars, ready, sent, answered, dropped>>

\* One time unit passes for every pending command that has a timeout (age counts the
\* time units since it was sent, up to MaxAge); a wait that has expired ends before
\* more time passes.
Timed(c) == c.st = "awaiting" /\ c.req.timeout # None /\ c.age < MaxAge

Tick ==
    /\ \E k \in 1..Len(calls) : Timed(calls[k])
    /\ \A k \in 1..Len(calls) : ~Expired(calls[k])
    /\ calls' = [k \in 1..Len(calls) |->
                    IF Timed(calls[k]) THEN [calls[k] EXCEPT !.age = @ + 1] ELSE calls[k]]
    /\ UNCHANGED <<cfgVars, evtVars, ready, sent, table, answered, dropped>>

(***************************************************************************)
(* The owner's calls, one action per method.                               *)
(***************************************************************************)
PlayPositions == {Omitted, Duration(2)}
SeekPositions == {Duration(2)}

Call_play_async(i, position, timeout) ==
    Await(i, "play_async", Given(position, timeout), play_async(position, timeout))

Call_play(i, position, timeout) ==
    CreateTask(i, "play_async", Given(position, timeout), play(position, timeout))

Call_pause_async(i, timeout) ==
    Await(i, "pause_async", Given(Omitted, timeout), pause_async(timeout))

Call_pause(i, timeout) ==
    CreateTask(i, "pause_async", Given(Omitted, timeout), pause(timeout))

Call_resume_async(i, timeout) ==
    Await(i, "resume_async", Given(Omitted, timeout), resume_async(timeout))

Call_resume(i, timeout) ==
    CreateTask(i, "resume_async", Given(Omitted, timeout), resume(timeout))

Call_release_async(i, timeout) ==
    Await(i, "release_async", Given(Omitted, timeout), release_async(timeout))

Call_release(i, timeout) ==
    CreateTask(i, "release_async", Given(Omitted, timeout), release(timeout))

Call_seek_async(i, position, timeout) ==
    Await(i, "seek_async", Given(position, timeout), seek_async(position, timeout))

Call_seek(i, position, timeout) ==
    CreateTask(i, "seek_async", Given(position, timeout), seek(position, timeout))

Call_get_duration_async(i, timeout) ==
    Await(i, "get_duration_async", Given(Omitted, timeout), get_duration_async(timeout))

Call_get_current_position_async(i, timeout) ==
    Await(i, "get_current_position_async", Given(Omitted, timeout),
          get_current_position_async(timeout))

\* The owner calls a suspending method of an instance of I with a timeout of T.
SuspendingCall(I, T) ==
    \E i \in I, t \in T :
        \/ \E p \in PlayPositions : Call_play_async(i, p, t)
        \/ Call_pause_async(i, t)
        \/ Call_resume_async(i, t)
        \/ Call_release_async(i, t)
        \/ \E p \in SeekPositions : Call_seek_async(i, p, t)
        \/ Call_get_duration_async(i, t)
        \/ Call_get_current_position_async(i, t)

\* The owner calls a non-suspending method of an instance of I with a timeout of T.
NonSuspendingCall(I, T) ==
    \E i \in I, t \in T :
        \/ \E p \in PlayPositions : Call_play(i, p, t)
        \/ Call_pause(i, t)
        \/ Call_resume(i, t)
        \/ Call_release(i, t)
        \/ \E p \in SeekPositions : Call_seek(i, p, t)

\* The owner asks an instance of I for its duration or position.
QueryCall(I, T) ==
    \E i \in I, t \in T :
        \/ Call_get_duration_async(i, t)
        \/ Call_get_current_position_async(i, t)

\* The owner calls play() on an instance of I.
PlayCall(I, T) ==
    \E i \in I, t \in T, p \in PlayPositions : Call_play(i, p, t)

RemoteReplies ==
    \E cid \in 1..Len(sent) :
        \E v \in ReplyValues(sent[cid].name) : ReplyArrives(cid, "reply", v)

RemoteFails ==
    \E cid \in 1..Len(sent) : ReplyArrives(cid, "RemoteError", None)

TimesOut == \E k \in 1..Len(calls) : Timeout(k)

\* The owner assigns a source field of an instance of I, or the runtime validates it.
Configure(I) ==
    \/ \E i \in I, v \in SrcValues : SetSrc(i, v)
    \/ \E i \in I, v \in Base64Values : SetSrcBase64(i, v)
    \/ \E i \in I : before_update(i)

(***************************************************************************)
(* The event handler fields and the dispatch of inbound events.            *)
(***************************************************************************)
EventFields ==
    {"on_loaded", "on_duration_change", "on_state_change", "on_position_change",
     "on_seek_complete"}

HandlerValues == {None, Some("h1"), Some("h2")}

Payloads(f) ==
    CASE f = "on_state_change" -> {"playing", "paused"}
      [] f = "on_duration_change" -> {"duration"}
      [] f = "on_position_change" -> {"position"}
      [] OTHER -> {"empty"}

InitEvt ==
    /\ handlers = [i \in Instances |-> [f \in EventFields |-> None]]
    /\ registered = [i \in Instances |-> [f \in EventFields |-> <<>>]]
    /\ inbox = <<>>
    /\ delivered = <<>>

\* A field that keeps the handler it already holds.
AssignHandlerKeepFirst(old, new) == IF old = None THEN new ELSE old

\* An event handler field is one Optional value: assigning it replaces what it held.
AssignHandler(old, new) == new

SetHandler(i, f, h) ==
    /\ assigns < MaxAssign
    /\ handlers[i][f] # h
    /\ handlers' = [handlers EXCEPT ![i][f] = AssignHandler(@, h)]
    /\ registered' = [registered EXCEPT ![i][f] =
                        IF h = None THEN <<>> ELSE Append(@, h.val)]
    /\ assigns' = assigns + 1
    /\ UNCHANGED <<src, src_base64, props, attached, lastCheck, cmdVars, inbox, delivered>>

\* The transport brings an event of the remote side for instance i.
EventArrives(i, f, payload) ==
    /\ Len(inbox) + Len(delivered) < MaxEvents
    /\ inbox' = Append(inbox, [inst |-> i, kind |-> f, payload |-> payload,
                               seq |-> Len(inbox) + Len(delivered) + 1])
    /\ UNCHANGED <<cfgVars, cmdVars, handlers, registered, delivered>>

\* The handlers the dispatcher invokes for an event: what the field holds.
Invoked(h) == IF h = None THEN <<>> ELSE <<h.val>>

\* A dispatcher that takes the newest event first.
DispatchNewest ==
    /\ inbox # <<>>
    /\ LET e == inbox[Len(inbox)]
       IN  delivered' = Append(delivered,
                [inst |-> e.inst, kind |-> e.kind, payload |-> e.payload, seq |-> e.seq,
                 regs |-> registered[e.inst][e.kind],
                 invoked |-> Invoked(handlers[e.inst][e.kind])])
    /\ inbox' = SubSeq(inbox, 1, Len(inbox) - 1)
    /\ UNCHANGED <<cfgVars, cmdVars, handlers, registered>>

\* The dispatcher takes the oldest event and invokes the handler of its instance and kind.
Dispatch ==
    /\ inbox # <<>>
    /\ LET e == Head(inbox)
       IN  delivered' = Append(delivered,
                [inst |-> e.inst, kind |-> e.kind, payload |-> e.payload, seq |-> e.seq,
                 regs |-> registered[e.inst][e.kind],
                 invoked |-> Invoked(handlers[e.inst][e.kind])])
    /\ inbox' = Tail(inbox)
    /\ UNCHANGED <<cfgVars, cmdVars, handlers, registered>>

(***************************************************************************)
(* Specifications.                                                         *)
(***************************************************************************)
\* Audio() as constructed: every field at its default, nothing published.
InitDefaults == InitCfg /\ InitCmd /\ InitEvt

\* Audio(src="a.mp3"), published by the runtime after a first before_update.
AudioFile == Some(<<"a", ".", "m", "p", "3">>)

InitPublished ==
    /\ src = [i \in Instances |-> AudioFile]
    /\ src_base64 = [i \in Instances |-> None]
    /\ props = [i \in Instances |-> DefaultProps]
    /\ attached = [i \in Instances |-> TRUE]
    /\ lastCheck = [i \in Instances |->
            [done |-> TRUE, src |-> AudioFile, src_base64 |-> None, raised |-> None]]
    /\ assigns = 0
    /\ InitCmd
    /\ InitEvt

Init == InitPublished

\* The non-suspending methods and their tasks against a live channel.
Next ==
    \/ NonSuspendingCall({1}, {None, Some(1)})
    \/ RunTask
    \/ RemoteReplies
    \/ RemoteFails
    \/ TimesOut
    \/ Tick

Spec == Init /\ [][Next]_vars

\* The suspending methods against a live channel.
NextAwait ==
    \/ SuspendingCall({1}, {None, Some(1)})
    \/ RemoteReplies
    \/ RemoteFails
    \/ TimesOut
    \/ Tick

SpecAwait == Init /\ [][NextAwait]_vars

\* The configuration of the instances: assignments and validation.
NextCfg == Configure(Instances)

SpecCfg == InitDefaults /\ [][NextCfg]_vars

\* The configuration of an instance and the commands sent in between.
NextGate ==
    \/ Configure({1})
    \/ SuspendingCall({1}, {Omitted})
    \/ NonSuspendingCall({1}, {Omitted})
    \/ RunTask
    \/ RemoteReplies

SpecGate == InitDefaults /\ [][NextGate]_vars

\* The suspending methods against a channel that never replies.
NextSilent ==
    \/ SuspendingCall({1}, {Some(1), Some(2)})
    \/ TimesOut
    \/ Tick

SpecSilent == Init /\ [][NextSilent]_vars

\* Queries pending at the same time, with replies in any order, early or late.
NextQuery ==
    \/ QueryCall(Instances, {Some(1)})
    \/ RemoteReplies
    \/ RemoteFails
    \/ TimesOut
    \/ Tick

SpecQuery == Init /\ [][NextQuery]_vars

\* play() and its task; the event loop runs every task it holds.
NextPlay ==
    \/ PlayCall(Instances, {Omitted, None})
    \/ RunTask
    \/ RemoteReplies
    \/ RemoteFails

SpecPlay == Init /\ [][NextPlay]_vars /\ WF_vars(RunTask)

\* The event handler fields of one instance and its inbound events.
NextEvt ==
    \/ \E f \in EventFields, h \in HandlerValues : SetHandler(1, f, h)
    \/ \E f \in EventFields : \E p \in Payloads(f) : EventArrives(1, f, p)
    \/ Dispatch

SpecEvt == Init /\ [][NextEvt]_vars

\* All twelve methods of one instance, with the timeout left out or given, up to the
\* sending of their commands and the replies to them.
NextFacade ==
    \/ SuspendingCall({1}, {Omitted, Some(1)})
    \/ NonSuspendingCall({1}, {Omitted, Some(1)})
    \/ RunTask
    \/ RemoteReplies

SpecFacade == Init /\ [][NextFacade]_vars

\* The non-suspending methods with a finite timeout and their tasks: the event loop
\* runs every task it holds, time passes, and a timer that is due fires.
NextTask ==
    \/ NonSuspendingCall({1}, {Some(1)})
    \/ RunTask
    \/ RemoteReplies
    \/ RemoteFails
    \/ TimesOut
    \/ Tick

SpecTask ==
    Init /\ [][NextTask]_vars /\ WF_vars(RunTask) /\ WF_vars(Tick) /\ WF_vars(TimesOut)

\* Published instances whose source fields the owner reassigns between updates.
SpecReval == InitPublished /\ [][NextCfg]_vars

\* Audio(src="a.mp3", autoplay=True, volume=0.5, ..., on_loaded=h1, ...), published.
InitTuned ==
    /\ src = [i \in Instances |-> AudioFile]
    /\ src_base64 = [i \in Instances |-> None]
    /\ props = [i \in Instances |-> TunedProps]
    /\ attached = [i \in Instances |-> TRUE]
    /\ lastCheck = [i \in Instances |->
            [done |-> TRUE, src |-> AudioFile, src_base64 |-> None, raised |-> None]]
    /\ assigns = 0
    /\ InitCmd
    /\ handlers = [i \in Instances |-> [f \in EventFields |-> Some("h1")]]
    /\ registered = [i \in Instances |-> [f \in EventFields |-> <<"h1">>]]
    /\ inbox = <<>>
    /\ delivered = <<>>

\* Each of the twelve methods, called on instance i with one position and one timeout.
AnyCall(i, p, t) ==
    \/ Call_play_async(i, p, t)
    \/ Call_pause_async(i, t)
    \/ Call_resume_async(i, t)
    \/ Call_release_async(i, t)
    \/ Call_seek_async(i, p, t)
    \/ Call_get_duration_async(i, t)
    \/ Call_get_current_position_async(i, t)
    \/ Call_play(i, p, t)
    \/ Call_pause(i, t)
    \/ Call_resume(i, t)
    \/ Call_release(i, t)
    \/ Call_seek(i, p, t)

\* All twelve methods of a configured instance and every way they end.
NextFrame ==
    \/ AnyCall(1, Duration(2), Some(1))
    \/ RunTask
    \/ RemoteReplies
    \/ RemoteFails
    \/ TimesOut
    \/ Tick

SpecFrame == InitTuned /\ [][NextFrame]_vars

(***************************************************************************)
(* The claims.                                                             *)
(***************************************************************************)
Empty(s) == s = None \/ s = Some(<<>>)

CallIds == 1..Len(calls)

\* C1: before_update fails with 'either src or src_base64 must be provided' exactly
\* when src and src_base64 are both None or the empty string, and succeeds otherwise.
C1_ConfigErrorIffBothEmpty ==
    \A i \in Instances :
        lastCheck[i].done =>
            /\ lastCheck[i].raised \in {None, ConfigError}
            /\ lastCheck[i].raised = ConfigError
                 <=> (Empty(lastCheck[i].src) /\ Empty(lastCheck[i].src_base64))

C1_Witness ==
    \E i, j \in Instances :
        /\ lastCheck[i].done /\ lastCheck[i].raised = ConfigError
        /\ lastCheck[i].src = Some(<<>>)
        /\ lastCheck[j].done /\ lastCheck[j].raised = None
        /\ Empty(lastCheck[j].src) /\ ~Empty(lastCheck[j].src_base64)

\* C2: no command has been sent for an instance whose src and src_base64 were both
\* empty when the command was sent.
C2_NoCommandWhileUnconfigured ==
    \A m \in 1..Len(sent) : calls[sent[m].call].cfgOk

AskedTimeout(c) == IF c.given.timeout = Omitted THEN Some(10) ELSE c.given.timeout

\* C4: on a channel that never replies, a suspending call with a finite timeout t is
\* not pending after more than t time units, and when it has ended it has ended with
\* TimeoutError, t or more time units after its command was sent.
C4_TimeoutNotBeforeT ==
    \A k \in CallIds :
        LET c == calls[k]
            t == AskedTimeout(c)
        IN  (c.form = "await" /\ t # None) =>
                /\ c.st # "created"
                /\ c.st = "awaiting" => c.age <= t.val
                /\ c.st = "done" => (c.caller.kind = "TimeoutError" /\ c.age >= t.val)

C4_Witness ==
    \E k \in CallIds :
        /\ calls[k].form = "await" /\ calls[k].given.timeout = Some(2)
        /\ calls[k].method = "get_current_position_async"
        /\ calls[k].st = "done" /\ calls[k].caller.kind = "TimeoutError"
        /\ calls[k].age = 2

\* C5: a suspending call whose command failed (TimeoutError or an error of the
\* remote side) ends for its caller with that failure, never with a return.
C5_SuspendingPropagatesFailure ==
    \A k \in CallIds :
        (calls[k].form = "await" /\ calls[k].st = "done" /\ Failed(calls[k].chan)) =>
            /\ calls[k].caller.kind = calls[k].chan.kind
            /\ calls[k].caller.kind # "return"

C5_Witness ==
    \E k, j \in CallIds :
        /\ calls[k].form = "await" /\ calls[k].st = "done"
        /\ calls[k].chan.kind = "TimeoutError" /\ calls[k].caller.kind = "TimeoutError"
        /\ calls[j].form = "await" /\ calls[j].st = "done"
        /\ calls[j].chan.kind = "RemoteError" /\ calls[j].caller.kind = "RemoteError"

\* C6: no task of a non-suspending method ends with an exception that nothing caught.
C6_NoUnhandledTaskError ==
    \A k \in CallIds : ~calls[k].unhandled

SentFor(k) == {m \in 1..Len(sent) : sent[m].call = k}

DefaultPlay(k) ==
    /\ k \in CallIds
    /\ calls[k].form = "task" /\ calls[k].method = "play_async"
    /\ calls[k].given.position = Omitted

OnePlayFromStart(k) ==
    /\ Cardinality(SentFor(k)) = 1
    /\ \A m \in SentFor(k) :
        /\ sent[m].name = "play"
        /\ sent[m].inst = calls[k].inst
        /\ sent[m].arguments = {<<"position", Duration(0)>>}

\* C7: after play() without a position, the event loop running its tasks, exactly
\* one command of that call is sent in the end: 'play' for the instance, with
\* position the zero-length duration; and never more than one.
C7_PlayEventuallySent ==
    \A k \in 1..MaxCalls :
        /\ [](DefaultPlay(k) => <>[]OnePlayFromStart(k))
        /\ [](k \in CallIds => Cardinality(SentFor(k)) <= 1)

C7_Witness ==
    \E k \in CallIds :
        DefaultPlay(k) /\ OnePlayFromStart(k) /\ calls[k].given.timeout = Omitted

\* C8: the reply to a command that has timed out is dropped when it arrives, and is
\* the outcome of no call: every reply a call ends with answers that call's command.
C8_LateReplyDiscarded ==
    \A k \in CallIds :
        /\ (calls[k].st = "done" /\ calls[k].chan.kind = "TimeoutError") =>
              /\ calls[k].cid \in answered => calls[k].cid \in dropped
              /\ \A j \in CallIds :
                    calls[j].chan.kind = "reply" => calls[j].chan.val.of # calls[k].cid
        /\ calls[k].chan.kind = "reply" => calls[k].chan.val.of = calls[k].cid

C8_Witness ==
    \E k, j \in CallIds :
        /\ k # j /\ calls[k].inst = calls[j].inst
        /\ calls[k].chan.kind = "TimeoutError" /\ calls[k].cid \in dropped
        /\ calls[j].st = "awaiting" /\ calls[j].cid \in table

CommandOf(method) ==
    CASE method = "get_duration_async" -> "get_duration"
      [] method = "get_current_position_async" -> "get_current_position"
      [] OTHER -> ""

\* C9: a query that returns returns the answer to its own command (its correlation
\* id, its command name), whatever else is pending on the instance and in whatever
\* order the replies arrive.
C9_OwnResult ==
    \A k \in CallIds :
        (calls[k].st = "done" /\ ReturnsReply(calls[k].method)
           /\ calls[k].caller.kind = "return") =>
            /\ calls[k].caller.val.of = calls[k].cid
            /\ calls[k].caller.val.q = CommandOf(calls[k].method)

C9_Witness ==
    \E k, j \in CallIds :
        /\ calls[k].inst = calls[j].inst
        /\ calls[k].method = "get_duration_async"
        /\ calls[j].method = "get_current_position_async"
        /\ calls[k].cid < calls[j].cid
        /\ calls[k].st = "awaiting" /\ calls[k].cid \in table
        /\ calls[j].st = "done" /\ calls[j].caller.kind = "return"
        /\ calls[j].caller.val = [of |-> calls[j].cid, q |-> "get_current_position",
                                  v |-> Some(3)]

StateChanges == {n \in 1..Len(delivered) : delivered[n].kind = "on_state_change"}

SameStream(a, b) == a.inst = b.inst /\ a.kind = b.kind

C11_ArrivalOrderPerKind ==
    /\ \A n, m \in 1..Len(delivered) :
          (n < m /\ SameStream(delivered[n], delivered[m]))
             => delivered[n].seq < delivered[m].seq
    /\ \A n \in 1..Len(delivered), e \in 1..Len(inbox) :
          SameStream(delivered[n], inbox[e]) => delivered[n].seq < inbox[e].seq
    /\ \A n \in 1..Len(delivered) : Len(delivered[n].invoked) <= 1

\* Two events of one kind were delivered to a handler, with distinct payloads.
C11_Witness ==
    \E n, m \in 1..Len(delivered) :
        /\ n < m
        /\ SameStream(delivered[n], delivered[m])
        /\ delivered[n].payload # delivered[m].payload
        /\ delivered[n].invoked # <<>>
        /\ delivered[m].invoked # <<>>

\* C13: when the owner calls non-suspending forms on one instance one after another,
\* their commands are sent on the channel in the order of the calls, whichever of the
\* scheduled units of work has run so far: a later call's command is never sent while
\* an earlier call's command is still unsent, and never carries a smaller position in
\* the sequence of sent commands.
Started(k) == calls[k].st # "created"

C13_TasksSendInCallOrder ==
    \A k, j \in CallIds :
        (/\ k < j
         /\ calls[k].form = "task" /\ calls[j].form = "task"
         /\ calls[k].inst = calls[j].inst
         /\ Started(j))
           => (Started(k) /\ calls[k].cid < calls[j].cid)

\* Two non-suspending calls of different operations, both sent, the first one first.
C13_Witness ==
    \E k, j \in CallIds :
        /\ k < j
        /\ calls[k].form = "task" /\ calls[j].form = "task"
        /\ calls[k].method # calls[j].method
        /\ Started(k) /\ Started(j)
        /\ sent[calls[k].cid].name # sent[calls[j].cid].name
        /\ calls[k].cid < calls[j].cid

\* C14: every call of the facade, suspending or not, results in exactly one command
\* for the instance it was called on: none before its coroutine has started, one from
\* then on; the command's name is the operation's name, its arguments are
\* {position: the caller's position} for play and seek and empty for the others, and
\* its timeout is the one the caller passed, 10 when none was passed.
OperationName(method) ==
    CASE method = "play_async" -> "play"
      [] method = "pause_async" -> "pause"
      [] method = "resume_async" -> "resume"
      [] method = "release_async" -> "release"
      [] method = "seek_async" -> "seek"
      [] method = "get_duration_async" -> "get_duration"
      [] method = "get_current_position_async" -> "get_current_position"

AskedPosition(c) ==
    IF c.given.position = Omitted THEN Duration(0) ELSE c.given.position

AskedArguments(c) ==
    IF c.method \in {"play_async", "seek_async"}
    THEN {<<"position", AskedPosition(c)>>}
    ELSE {}

C14_OneCommandPerCall ==
    /\ \A k \in CallIds :
          /\ Cardinality(SentFor(k)) = IF Started(k) THEN 1 ELSE 0
          /\ \A m \in SentFor(k) :
                /\ sent[m].inst = calls[k].inst
                /\ sent[m].name = OperationName(calls[k].method)
                /\ sent[m].arguments = AskedArguments(calls[k])
                /\ sent[m].timeout = AskedTimeout(calls[k])
    /\ \A m \in 1..Len(sent) : sent[m].call \in CallIds

\* A non-suspending seek with the timeout left out and a suspending release with its
\* own timeout have both been sent, and the first has been answered.
C14_Witness ==
    \E k, j \in CallIds :
        /\ calls[k].form = "task" /\ calls[k].method = "seek_async"
        /\ calls[k].given.timeout = Omitted /\ calls[k].st = "done"
        /\ calls[j].form = "await" /\ calls[j].method = "release_async"
        /\ calls[j].given.timeout = Some(1) /\ Started(j)
        /\ Cardinality(SentFor(k)) = 1 /\ Cardinality(SentFor(j)) = 1

\* C15: every unit of work scheduled by a non-suspending form with a finite timeout
\* runs to completion under a fair scheduler: its command is eventually sent and it
\* eventually ends with a reply, a timeout or a remote error; the caller, who got None
\* back at the call, sees nothing of it then or later.
FiniteTask(k) ==
    k \in CallIds /\ calls[k].form = "task" /\ calls[k].req.timeout # None

Completed(k) ==
    /\ k \in CallIds
    /\ calls[k].st = "done"
    /\ Cardinality(SentFor(k)) = 1
    /\ calls[k].chan.kind \in {"reply", "TimeoutError", "RemoteError"}

WaitsForever(k) ==
    calls[k].form = "await" /\ calls[k].given.timeout = None

C16_NoneWaitsIndefinitely ==
    \A k \in CallIds :
        WaitsForever(k) =>
            /\ Started(k)
            /\ sent[calls[k].cid].timeout = None
            /\ calls[k].age = 0
            /\ calls[k].chan.kind # "TimeoutError"
            /\ calls[k].caller.kind # "TimeoutError"
            /\ (calls[k].st = "awaiting") <=> (calls[k].cid \notin answered)
            /\ (calls[k].st = "awaiting") => (calls[k].caller = Pending)
            /\ (calls[k].st = "done") =>
                  /\ calls[k].chan.kind \in {"reply", "RemoteError"}
                  /\ calls[k].chan.kind = "reply" => calls[k].chan.val.of = calls[k].cid

\* A call with timeout None is still pending after a later call with a finite timeout
\* has timed out.
C16_Witness ==
    \E k, j \in CallIds :
        /\ k < j
        /\ WaitsForever(k) /\ calls[k].st = "awaiting"
        /\ calls[j].form = "await" /\ calls[j].chan.kind = "TimeoutError"

\* C17: get_duration_async and get_current_position_async return exactly the value the
\* remote side replied to their own command; a reply of None is returned as None and
\* raises nothing; and no call of either query is ever made in a non-suspending form.
IsQuery(k) == calls[k].method \in {"get_duration_async", "get_current_position_async"}

C17_QueryReturnsReplyValue ==
    \A k \in CallIds :
        IsQuery(k) =>
            /\ calls[k].form = "await"
            /\ (calls[k].st = "done" /\ calls[k].chan.kind = "reply") =>
                  /\ calls[k].chan.val.of = calls[k].cid
                  /\ calls[k].caller.kind = "return"
                  /\ calls[k].caller.val.v = calls[k].chan.val.v
                  /\ ~calls[k].unhandled

\* One query was answered None and returned None; the other returned a duration.
C17_Witness ==
    \E k, j \in CallIds :
        /\ calls[k].method = "get_duration_async" /\ calls[k].st = "done"
        /\ calls[k].chan = Outcome("reply", [of |-> calls[k].cid, q |-> "get_duration",
                                             v |-> None])
        /\ calls[k].caller.kind = "return" /\ calls[k].caller.val.v = None
        /\ calls[j].method = "get_current_position_async" /\ calls[j].st = "done"
        /\ calls[j].caller.kind = "return" /\ calls[j].caller.val.v = Some(3)

\* C18: the configuration is checked at every update and never at assignment: a step
\* that assigns src or src_base64, also one that leaves both empty, raises nothing and
\* records no check; every before_update, also after a successful activation, fails
\* with the configuration error exactly when both fields are empty at that moment, so
\* it fails after both were cleared and succeeds again once either field is set.
Assigned == src' # src \/ src_base64' # src_base64

CheckedNow(i) ==
    /\ lastCheck'[i].done
    /\ lastCheck'[i].src = src[i]
    /\ lastCheck'[i].src_base64 = src_base64[i]
    /\ lastCheck'[i].raised =
          IF Empty(src[i]) /\ Empty(src_base64[i]) THEN ConfigError ELSE None

C18_CheckedAtUpdateNotAssignment ==
    [][/\ Assigned => (lastCheck' = lastCheck /\ attached' = attached)
       /\ \A i \in Instances : lastCheck'[i] # lastCheck[i] => CheckedNow(i)]_vars

\* A published instance whose last before_update failed after both fields were
\* cleared, and whose src has been set again since: the next before_update is due.
C18_Witness ==
    \E i \in Instances :
        /\ attached[i]
        /\ lastCheck[i].raised = ConfigError
        /\ Empty(lastCheck[i].src) /\ Empty(lastCheck[i].src_base64)
        /\ ~Empty(src[i])
        /\ ENABLED before_update(i)

\* C19: no operation of the facade changes the configuration of an instance: every step
\* of a call, of its background unit of work or of its ending (result, timeout, remote
\* error) leaves src, src_base64, autoplay, volume, balance, playback_rate,
\* release_mode and the five event handlers of every instance as they were.
FacadeStep == cmdVars' # cmdVars

C19_FacadeLeavesConfiguration ==
    [][FacadeStep => UNCHANGED <<src, src_base64, props, handlers>>]_vars

\* One background unit of work has timed out and one suspending call has ended with a
\* remote error; the fields are as the owner set them.
C19_Witness ==
    \E k, j \in CallIds :
        /\ calls[k].form = "task" /\ calls[k].chan.kind = "TimeoutError"
        /\ calls[j].form = "await" /\ calls[j].caller.kind = "RemoteError"
        /\ props[calls[k].inst] = TunedProps
        /\ src[calls[k].inst] = AudioFile
        /\ \A f \in EventFields : handlers[calls[k].inst][f] = Some("h1")

====
